---- MODULE Spec2Model ----
(***************************************************************************)
(* A model of pyparsing/util.py: the memoization caches (_UnboundedCache,  *)
(* _FifoCache, LRUMemo, UnboundedMemo), the flag registry __config_flags   *)
(* and _collapse_string_to_ranges.  Every cache is modelled with the Python*)
(* containers it is built from: a dict is a function whose DOMAIN is the   *)
(* set of stored keys, a collections.OrderedDict is a sequence of          *)
(* [key, value] records, oldest entry first.                               *)
(***************************************************************************)
EXTENDS Integers, Sequences, FiniteSets, TLC

\* ------------------------------------------------------------------ bounds
NumKeys == 3
NumVals == 2
MaxCapacity == 2

Keys == 1..NumKeys
Vals == 1..NumVals
\* the bounds a cache is constructed with: the constructors take any integer
Capacities == {-1, 0} \cup (1..MaxCapacity)

VARIABLES
    capacity,    \* LRUMemo._capacity
    active,      \* LRUMemo._active   (dict)
    memory,      \* LRUMemo._memory   (OrderedDict, least recently used first)
    fifo_size,   \* _FifoCache: size
    fifo_cache,  \* _FifoCache: cache  (OrderedDict, oldest insertion first)
    unb_cache,   \* _UnboundedCache: cache  (dict)
    memo,        \* UnboundedMemo: the dict itself
    s_arg,       \* _collapse_string_to_ranges: the argument s, a sequence of
                 \* code points
    re_escape,   \* _collapse_string_to_ranges: the argument re_escape
    ret,         \* _collapse_string_to_ranges: the string returned, as code points
    all_names,   \* __config_flags._all_names of the flag class, as a set
    fixed_names, \* __config_flags._fixed_names of the flag class, as a set
    attrs,       \* the flag attributes of the class: name -> value
    flag_call,   \* the latest enable/disable call and how it ended
    last,        \* the call just made: its arguments, the tier that held the key
                 \* when it was made, the value returned, the error raised
    useOrder,    \* history: the retired keys, least recently used first
    retireOrder, \* history: the retired keys, earliest retired first
    insertOrder, \* history: the keys of the FIFO cache, earliest inserted first
    written,     \* history: key -> value of its latest set since the latest clear
    hitSince,    \* history: the stored keys that get has read since they were
                 \* retired (LRUMemo) or inserted (_FifoCache)
    evicted      \* history: the entries the last call discarded

lruVars == <<capacity, active, memory, useOrder, retireOrder>>
fifoVars == <<fifo_size, fifo_cache, insertOrder>>
unbVars == <<unb_cache, written>>
memoVars == <<memo>>
\* the state of the parts of the module added after the three caches
collapseVars == <<s_arg, re_escape, ret>>
flagVars == <<all_names, fixed_names, attrs, flag_call>>
extVars == <<memoVars, collapseVars, flagVars>>
vars == <<lruVars, fifoVars, unbVars, extVars, last, hitSince, evicted>>

\* ------------------------------------------------------- Python containers
\* dict
EmptyDict == [j \in {} |-> 0]
Dict_set(d, k, v) == [j \in (DOMAIN d) \cup {k} |-> IF j = k THEN v ELSE d[j]]
Dict_del(d, k) == [j \in (DOMAIN d) \ {k} |-> d[j]]

\* collections.OrderedDict
OD_keys(od) == {od[i].key : i \in 1..Len(od)}
OD_has(od, k) == k \in OD_keys(od)
OD_get(od, k) == od[CHOOSE i \in 1..Len(od) : od[i].key = k].value
\* od.pop(k, None)
OD_pop(od, k) == SelectSeq(od, LAMBDA e : e.key # k)
\* od[k] = v : a new key goes to the end, an existing key keeps its place
OD_setitem(od, k, v) ==
    IF OD_has(od, k)
    THEN [i \in 1..Len(od) |->
            IF od[i].key = k THEN [key |-> k, value |-> v] ELSE od[i]]
    ELSE Append(od, [key |-> k, value |-> v])
\* od.move_to_end(k), for a key that is present
OD_move_to_end(od, k) == Append(OD_pop(od, k), [key |-> k, value |-> OD_get(od, k)])

\* ------------------------------------------------------------------ LRUMemo
\* LRUMemo.__init__: stores the capacity as given, never raises
LRUMemo_init(c) ==
    [capacity |-> c, active |-> EmptyDict, memory |-> <<>>, raised |-> "none"]

\* faulty variant: a hit in _memory moves the entry back into _active
LRUMemo_getitem_promote(act, mem, k) ==
    IF k \in DOMAIN act
    THEN [active |-> act, memory |-> mem, ret |-> <<act[k]>>, raised |-> "none"]
    ELSE IF OD_has(mem, k)
         THEN [active |-> Dict_set(act, k, OD_get(mem, k)), memory |-> OD_pop(mem, k),
               ret |-> <<OD_get(mem, k)>>, raised |-> "none"]
         ELSE [active |-> act, memory |-> mem, ret |-> <<>>, raised |-> "KeyError"]

\* faulty variant: a miss answers like dict.get, with no value and no error
LRUMemo_getitem_quiet(act, mem, k) ==
    IF k \in DOMAIN act
    THEN [active |-> act, memory |-> mem, ret |-> <<act[k]>>, raised |-> "none"]
    ELSE IF OD_has(mem, k)
         THEN [active |-> act, memory |-> OD_move_to_end(mem, k),
               ret |-> <<OD_get(mem, k)>>, raised |-> "none"]
         ELSE [active |-> act, memory |-> mem, ret |-> <<>>, raised |-> "none"]

\* faulty variant: a hit in _memory is returned without move_to_end
LRUMemo_getitem_nomove(act, mem, k) ==
    IF k \in DOMAIN act
    THEN [active |-> act, memory |-> mem, ret |-> <<act[k]>>, raised |-> "none"]
    ELSE IF OD_has(mem, k)
         THEN [active |-> act, memory |-> mem,
               ret |-> <<OD_get(mem, k)>>, raised |-> "none"]
         ELSE [active |-> act, memory |-> mem, ret |-> <<>>, raised |-> "KeyError"]

\* LRUMemo.__getitem__
LRUMemo_getitem(act, mem, k) ==
    IF k \in DOMAIN act
    THEN [active |-> act, memory |-> mem, ret |-> <<act[k]>>, raised |-> "none"]
    ELSE IF OD_has(mem, k)
         THEN [active |-> act, memory |-> OD_move_to_end(mem, k),
               ret |-> <<OD_get(mem, k)>>, raised |-> "none"]
         \* move_to_end of a key that is not there raises KeyError
         ELSE [active |-> act, memory |-> mem, ret |-> <<>>, raised |-> "KeyError"]

\* faulty variant: the key is stored in _active and its retired entry is left in _memory
LRUMemo_setitem_nopop(act, mem, k, v) ==
    [active |-> Dict_set(act, k, v), memory |-> mem]

\* faulty variant: _active is kept to two entries, the smallest other key making room
LRUMemo_setitem_capped(act, mem, k, v) ==
    LET others == (DOMAIN act) \ {k}
        act2 == IF Cardinality(others) >= 2
                THEN Dict_del(act, CHOOSE j \in others : \A i \in others : j <= i)
                ELSE act
    IN  [active |-> Dict_set(act2, k, v), memory |-> OD_pop(mem, k)]

\* LRUMemo.__setitem__
LRUMemo_setitem(act, mem, k, v) ==
    [active |-> Dict_set(act, k, v), memory |-> OD_pop(mem, k)]

\* faulty variant: a full retired tier is emptied, not popped once
RECURSIVE EvictWhileFull_drain(_, _)
EvictWhileFull_drain(mem, cap) ==
    IF Len(mem) >= cap
    THEN IF Len(mem) = 0
         THEN [memory |-> mem, raised |-> "KeyError"]
         ELSE [memory |-> <<>>, raised |-> "none"]
    ELSE [memory |-> mem, raised |-> "none"]

\* faulty variant: the loop tests > where the code tests >=
RECURSIVE EvictWhileFull_gt(_, _)
EvictWhileFull_gt(mem, cap) ==
    IF Len(mem) > cap
    THEN IF Len(mem) = 0
         THEN [memory |-> mem, raised |-> "KeyError"]
         ELSE EvictWhileFull_gt(Tail(mem), cap)
    ELSE [memory |-> mem, raised |-> "none"]

\* the loop of LRUMemo.__delitem__: popitem(last=False) while the retired tier
\* is full; popitem on an empty OrderedDict raises KeyError
RECURSIVE EvictWhileFull(_, _)
EvictWhileFull(mem, cap) ==
    IF Len(mem) >= cap
    THEN IF Len(mem) = 0
         THEN [memory |-> mem, raised |-> "KeyError"]
         ELSE EvictWhileFull(Tail(mem), cap)
    ELSE [memory |-> mem, raised |-> "none"]

\* faulty variant: the KeyError of _active.pop is not caught
LRUMemo_delitem_strict(act, mem, cap, k) ==
    IF k \notin DOMAIN act
    THEN [active |-> act, memory |-> mem, raised |-> "KeyError"]
    ELSE LET value == act[k]
             ev == EvictWhileFull(mem, cap)
         IN  IF ev.raised # "none"
             THEN [active |-> Dict_del(act, k), memory |-> ev.memory,
                   raised |-> ev.raised]
             ELSE [active |-> Dict_del(act, k),
                   memory |-> OD_setitem(ev.memory, k, value), raised |-> "none"]

\* faulty variant: delete removes the key from _active and keeps nothing of it
LRUMemo_delitem_discard(act, mem, cap, k) ==
    IF k \notin DOMAIN act
    THEN [active |-> act, memory |-> mem, raised |-> "none"]
    ELSE [active |-> Dict_del(act, k), memory |-> mem, raised |-> "none"]

\* LRUMemo.__delitem__
LRUMemo_delitem(act, mem, cap, k) ==
    IF k \notin DOMAIN act
    THEN [active |-> act, memory |-> mem, raised |-> "none"]
    ELSE LET value == act[k]
             ev == EvictWhileFull(mem, cap)
         IN  IF ev.raised # "none"
             THEN [active |-> Dict_del(act, k), memory |-> ev.memory,
                   raised |-> ev.raised]
             ELSE [active |-> Dict_del(act, k),
                   memory |-> OD_setitem(ev.memory, k, value), raised |-> "none"]

\* LRUMemo.clear
LRUMemo_clear(act, mem) == [active |-> EmptyDict, memory |-> <<>>]

\* History of the retired tier, kept for the keys that are in _memory.  A retired
\* key is used when delete retires it and when get returns its retired entry:
\* useOrder lists the retired keys by their latest use, retireOrder by their
\* retirement, both oldest first; hitSince holds those read since they retired.
\* `retired` is the key that enters _memory in this step, `hit` the key whose
\* retired entry get has just returned (each a sequence of at most one key).
Index(seq, j) ==
    IF \E i \in 1..Len(seq) : seq[i] = j
    THEN CHOOSE i \in 1..Len(seq) : seq[i] = j
    ELSE 0
InSeq(seq, j) == \E i \in 1..Len(seq) : seq[i] = j
Renewed(seq, mem2, used) ==
    SelectSeq(seq, LAMBDA j : OD_has(mem2, j) /\ ~InSeq(used, j)) \o used
HitSinceAfter(mem2, retired, hit) ==
    {j \in hitSince : OD_has(mem2, j) /\ ~InSeq(retired, j)} \cup {hit[i] : i \in 1..Len(hit)}
\* the entries of _memory that a delete discarded, in the order it discarded them
Dropped(mem2) ==
    LET gone == SelectSeq(memory, LAMBDA e : ~OD_has(mem2, e.key))
    IN  [i \in 1..Len(gone) |->
            [key |-> gone[i].key,
             useRank |-> Index(useOrder, gone[i].key),
             retireRank |-> Index(retireOrder, gone[i].key),
             hit |-> gone[i].key \in hitSince]]

\* the caches a specification does not exercise stay as they are here
LRUIdle ==
    /\ capacity = 0 /\ active = EmptyDict /\ memory = <<>>
    /\ useOrder = <<>> /\ retireOrder = <<>>
FifoIdle == fifo_size = 0 /\ fifo_cache = <<>> /\ insertOrder = <<>>
UnboundedIdle == unb_cache = EmptyDict /\ written = EmptyDict
MemoIdle == memo = EmptyDict
CollapseIdle == s_arg = <<>> /\ re_escape = TRUE /\ ret = <<>>
NoFlagCall == [op |-> "init", name |-> 0, warned |-> FALSE, raised |-> "none"]
FlagsIdle ==
    /\ all_names = {} /\ fixed_names = {} /\ attrs = EmptyDict
    /\ flag_call = NoFlagCall
ExtIdle == MemoIdle /\ CollapseIdle /\ FlagsIdle

\* the tier that holds key k when a call is made
Tier(k) ==
    IF k \in DOMAIN active THEN "active"
    ELSE IF OD_has(memory, k) THEN "retired" ELSE "absent"

LRUInit ==
    \E c \in Capacities :
        LET o == LRUMemo_init(c)
        IN  /\ o.raised = "none"
            /\ capacity = o.capacity
            /\ active = o.active
            /\ memory = o.memory
            /\ last = [op |-> "init", args |-> <<c>>, tier |-> "none", ret |-> <<>>,
                       raised |-> o.raised]
            /\ useOrder = <<>>
            /\ retireOrder = <<>>
            /\ hitSince = {}
            /\ evicted = <<>>
            /\ FifoIdle
            /\ UnboundedIdle
            /\ ExtIdle

LRUGet(k) ==
    LET r == LRUMemo_getitem(active, memory, k)
        hit == IF k \notin DOMAIN active /\ OD_has(memory, k) THEN <<k>> ELSE <<>>
    IN  /\ active' = r.active
        /\ memory' = r.memory
        /\ last' = [op |-> "getitem", args |-> <<k>>, tier |-> Tier(k), ret |-> r.ret,
                    raised |-> r.raised]
        /\ useOrder' = Renewed(useOrder, r.memory, hit)
        /\ evicted' = <<>>
        /\ UNCHANGED <<capacity, fifoVars, unbVars, extVars>>

LRUSet(k, v) ==
    LET r == LRUMemo_setitem(active, memory, k, v)
    IN  /\ active' = r.active
        /\ memory' = r.memory
        /\ last' = [op |-> "setitem", args |-> <<k, v>>, tier |-> Tier(k), ret |-> <<>>,
                    raised |-> "none"]
        /\ useOrder' = Renewed(useOrder, r.memory, <<>>)
        /\ evicted' = <<>>
        /\ UNCHANGED <<capacity, fifoVars, unbVars, extVars>>

LRUDel(k) ==
    LET r == LRUMemo_delitem(active, memory, capacity, k)
        retired == IF k \in DOMAIN active /\ OD_has(r.memory, k) THEN <<k>> ELSE <<>>
    IN  /\ active' = r.active
        /\ memory' = r.memory
        /\ last' = [op |-> "delitem", args |-> <<k>>, tier |-> Tier(k), ret |-> <<>>,
                    raised |-> r.raised]
        /\ useOrder' = Renewed(useOrder, r.memory, retired)
        /\ evicted' = Dropped(r.memory)
        /\ UNCHANGED <<capacity, fifoVars, unbVars, extVars>>

LRUClear ==
    LET r == LRUMemo_clear(active, memory)
    IN  /\ active' = r.active
        /\ memory' = r.memory
        /\ last' = [op |-> "clear", args |-> <<>>, tier |-> "none", ret |-> <<>>,
                    raised |-> "none"]
        /\ useOrder' = Renewed(useOrder, r.memory, <<>>)
        /\ evicted' = <<>>
        /\ UNCHANGED <<capacity, fifoVars, unbVars, extVars>>

LRUNext ==
    \/ \E k \in Keys : LRUGet(k) /\ UNCHANGED <<retireOrder, hitSince>>
    \/ \E k \in Keys, v \in Vals : LRUSet(k, v) /\ UNCHANGED <<retireOrder, hitSince>>
    \/ \E k \in Keys : LRUDel(k) /\ UNCHANGED <<retireOrder, hitSince>>
    \/ LRUClear /\ UNCHANGED <<retireOrder, hitSince>>

SpecLRU == LRUInit /\ [][LRUNext]_vars

\* The same calls with the retirement history kept as well.  The eviction order
\* never reads a value, so this specification stores one value only.
Retiring(k) == IF k \in DOMAIN active /\ OD_has(memory', k) THEN <<k>> ELSE <<>>
Hitting(k) == IF k \notin DOMAIN active /\ OD_has(memory, k) THEN <<k>> ELSE <<>>
History(retired, hit) ==
    /\ retireOrder' = Renewed(retireOrder, memory', retired)
    /\ hitSince' = HitSinceAfter(memory', retired, hit)

LRUHistNext ==
    \/ \E k \in Keys : LRUGet(k) /\ History(<<>>, Hitting(k))
    \/ \E k \in Keys : LRUSet(k, 1) /\ History(<<>>, <<>>)
    \/ \E k \in Keys : LRUDel(k) /\ History(Retiring(k), <<>>)
    \/ LRUClear /\ History(<<>>, <<>>)

SpecLRUHist == LRUInit /\ [][LRUHistNext]_vars

\* ------------------------------------------------------------ LRUMemo claims
\* what the cache stores for key k, in whichever tier: <<v>>, or <<>> for nothing
Stored(act, mem, k) ==
    IF k \in DOMAIN act THEN <<act[k]>>
    ELSE IF OD_has(mem, k) THEN <<OD_get(mem, k)>> ELSE <<>>
IsCall(rec, op, k) == rec.op = op /\ rec.args # <<>> /\ rec.args[1] = k

\* C1 as stated: a get of a key that is in neither tier returns normally, it
\* never raises.
C1_GetNeverRaises == last.op = "getitem" => last.raised = "none"

\* C1 amended: a get of a key that is in neither the active nor the retired
\* tier raises KeyError, returns no value and leaves both tiers unchanged.
C1_MissRaisesKeyErrorTiersUnchanged ==
    [][\A k \in Keys :
          (IsCall(last', "getitem", k) /\ k \notin DOMAIN active /\ ~OD_has(memory, k))
          => /\ last'.raised = "KeyError"
             /\ last'.ret = <<>>
             /\ active' = active
             /\ memory' = memory]_vars

C1_Witness ==
    /\ last.op = "getitem" /\ last.tier = "absent" /\ last.raised = "KeyError"
    /\ DOMAIN active # {}
    /\ memory # <<>>

\* C2: no call is ever made on a cache whose bound is not positive, because
\* the constructor rejects such a bound.
C2_NonPositiveBoundRejected == last.op # "init" => capacity >= 1

\* C3: a key that is active stays active, with the value of the latest set of
\* that key, across every call that is neither a delete of that key nor clear;
\* a get of it returns that value.
C3_ActiveKeyExemptFromEviction ==
    [][\A k \in DOMAIN active :
          (~IsCall(last', "delitem", k) /\ last'.op # "clear")
          => /\ k \in DOMAIN active'
             /\ active'[k] = IF IsCall(last', "setitem", k) THEN last'.args[2]
                             ELSE active[k]
             /\ IsCall(last', "getitem", k)
                    => last'.ret = <<active[k]>> /\ last'.raised = "none"
             /\ LRUMemo_getitem(active', memory', k).ret = <<active'[k]>>]_vars

\* an active key outlives the eviction of another key
C3_Witness ==
    /\ last.op = "delitem"
    /\ evicted # <<>>
    /\ \E k \in DOMAIN active : k # last.args[1]

\* C4: with capacity >= 1 the retired tier never holds more than capacity
\* entries (the active tier may hold more than that).
C4_RetiredTierBounded == capacity >= 1 => Len(memory) <= capacity

\* a retirement fills the retired tier while more keys than that are active
C4_Witness ==
    /\ capacity >= 1
    /\ last.op = "delitem" /\ last.tier = "active"
    /\ Len(memory) = capacity
    /\ Cardinality(DOMAIN active) > capacity

\* C5: no key is in the active tier and in the retired tier at the same time.
C5_TiersDisjoint == (DOMAIN active) \cap OD_keys(memory) = {}

\* a retired key has just been set again, while another key is retired
C5_Witness ==
    /\ last.op = "setitem" /\ last.tier = "retired"
    /\ last.args[1] \in DOMAIN active
    /\ memory # <<>>

\* C6: the entry a delete evicts from the retired tier is the least recently
\* used one, a retired entry being used when it is retired and when get returns it.
C6_EvictsLeastRecentlyUsed ==
    /\ evicted # <<>> => last.op = "delitem" /\ last.tier = "active"
    /\ \A i \in 1..Len(evicted) : evicted[i].useRank = i

\* a key retired first and read since survives the eviction of a key that was
\* retired after it and not read
C6_Witness ==
    /\ Len(evicted) = 1
    /\ ~evicted[1].hit
    /\ \E j \in hitSince :
          /\ OD_has(memory, j)
          /\ Index(retireOrder, j) < evicted[1].retireRank

\* C7: get returns what is stored for the key in whichever tier holds it, and
\* what is stored is the value of the latest set of that key: set(k, v) stores v
\* in the active tier only, no other call changes or creates a stored value, and
\* with capacity >= 1 the delete of an active key leaves its value readable.
C7_GetFallsThroughTiers ==
    [][\A k \in Keys :
          /\ IsCall(last', "getitem", k) => last'.ret = Stored(active, memory, k)
          /\ IsCall(last', "setitem", k)
                => /\ Stored(active', memory', k) = <<last'.args[2]>>
                   /\ LRUMemo_getitem(active', memory', k).ret = <<last'.args[2]>>
                   /\ ~OD_has(memory', k)
          /\ (~IsCall(last', "setitem", k) /\ Stored(active', memory', k) # <<>>)
                => Stored(active', memory', k) = Stored(active, memory, k)
          /\ (capacity >= 1 /\ IsCall(last', "delitem", k) /\ k \in DOMAIN active)
                => /\ OD_has(memory', k)
                   /\ LRUMemo_getitem(active', memory', k).ret = <<active[k]>>]_vars

\* a get served by the retired tier
C7_Witness ==
    /\ last.op = "getitem" /\ last.tier = "retired"
    /\ last.ret = Stored(active, memory, last.args[1])
    /\ last.ret # <<>>

\* ---------------------------------------------------------- _UnboundedCache
\* Python's None, a value a caller may store
PyNone == 0
\* _UnboundedCache.not_in_cache / _FifoCache.not_in_cache: object(), an object
\* that is identical to no stored value
not_in_cache == -1
\* the values stored in _UnboundedCache
Values == Vals \cup {PyNone}

\* cache.get(key, not_in_cache) of a dict
Dict_get(d, k, default) == IF k \in DOMAIN d THEN d[k] ELSE default

\* faulty variant: a stored value that is falsy is taken for a miss
UnboundedCache_get_falsy(c, k) ==
    IF k \in DOMAIN c /\ c[k] # PyNone THEN c[k] ELSE not_in_cache

\* _UnboundedCache.get
UnboundedCache_get(c, k) == Dict_get(c, k, not_in_cache)

\* _UnboundedCache.set_
UnboundedCache_set(c, k, v) == Dict_set(c, k, v)

\* _UnboundedCache.clear
UnboundedCache_clear(c) == EmptyDict

Present(keys, k) == IF k \in keys THEN "present" ELSE "absent"

UnboundedInit ==
    /\ unb_cache = EmptyDict
    /\ written = EmptyDict
    /\ last = [op |-> "init", args |-> <<>>, tier |-> "none", ret |-> <<>>,
               raised |-> "none"]
    /\ hitSince = {}
    /\ evicted = <<>>
    /\ LRUIdle
    /\ FifoIdle
    /\ ExtIdle

UnboundedGet(k) ==
    /\ last' = [op |-> "get", args |-> <<k>>, tier |-> Present(DOMAIN unb_cache, k),
                ret |-> <<UnboundedCache_get(unb_cache, k)>>, raised |-> "none"]
    /\ UNCHANGED <<unb_cache, written, hitSince, evicted, lruVars, fifoVars, extVars>>

UnboundedSet(k, v) ==
    /\ unb_cache' = UnboundedCache_set(unb_cache, k, v)
    /\ written' = [j \in (DOMAIN written) \cup {k} |-> IF j = k THEN v ELSE written[j]]
    /\ last' = [op |-> "set", args |-> <<k, v>>, tier |-> Present(DOMAIN unb_cache, k),
                ret |-> <<>>, raised |-> "none"]
    /\ UNCHANGED <<hitSince, evicted, lruVars, fifoVars, extVars>>

UnboundedClear ==
    /\ unb_cache' = UnboundedCache_clear(unb_cache)
    /\ written' = EmptyDict
    /\ last' = [op |-> "clear", args |-> <<>>, tier |-> "none", ret |-> <<>>,
                raised |-> "none"]
    /\ UNCHANGED <<hitSince, evicted, lruVars, fifoVars, extVars>>

UnboundedNext ==
    \/ \E k \in Keys : UnboundedGet(k)
    \/ \E k \in Keys, v \in Values : UnboundedSet(k, v)
    \/ UnboundedClear

SpecUnbounded == UnboundedInit /\ [][UnboundedNext]_vars

\* C8: in the unbounded cache, get(k) returns the value of the latest set(k, .)
\* made since the latest clear, and not_in_cache when there is none; a stored
\* None is returned as None, which is not not_in_cache; every key set since the
\* latest clear is still stored.
C8_UnboundedIsAMap ==
    /\ DOMAIN unb_cache = DOMAIN written
    /\ \A k \in Keys :
          /\ k \in DOMAIN written
                => /\ UnboundedCache_get(unb_cache, k) = written[k]
                   /\ UnboundedCache_get(unb_cache, k) # not_in_cache
          /\ k \notin DOMAIN written => UnboundedCache_get(unb_cache, k) = not_in_cache
    /\ last.op = "get"
          => /\ last.raised = "none"
             /\ last.ret = <<IF last.args[1] \in DOMAIN written
                             THEN written[last.args[1]] ELSE not_in_cache>>
             /\ last.args[1] \in DOMAIN written => last.ret # <<not_in_cache>>

\* a get finds a stored None while every key is stored
C8_Witness ==
    /\ last.op = "get"
    /\ last.ret = <<PyNone>>
    /\ DOMAIN unb_cache = Keys

\* ---------------------------------------------------------------- _FifoCache
\* _FifoCache.__init__: stores the size as given, never raises
FifoCache_init(s) == [size |-> s, cache |-> <<>>, raised |-> "none"]

\* faulty variant: a hit moves the entry to the end, as an access-ordered cache would
FifoCache_get_touch(c, k) ==
    [cache |-> IF OD_has(c, k) THEN OD_move_to_end(c, k) ELSE c,
     ret |-> IF OD_has(c, k) THEN OD_get(c, k) ELSE not_in_cache]

\* _FifoCache.get: cache.get(key, not_in_cache) of the OrderedDict
FifoCache_get(c, k) ==
    [cache |-> c, ret |-> IF OD_has(c, k) THEN OD_get(c, k) ELSE not_in_cache]

\* the loop of _FifoCache.set_: popitem(last=False) while the cache is over its
\* size; popitem on an empty OrderedDict raises KeyError
RECURSIVE PopWhileOver(_, _)
PopWhileOver(c, s) ==
    IF Len(c) > s
    THEN IF Len(c) = 0
         THEN [cache |-> c, raised |-> "KeyError"]
         ELSE PopWhileOver(Tail(c), s)
    ELSE [cache |-> c, raised |-> "none"]

\* faulty variant: popitem() with its default last=True, the newest entries go first
RECURSIVE PopNewestWhileOver(_, _)
PopNewestWhileOver(c, s) ==
    IF Len(c) > s
    THEN IF Len(c) = 0
         THEN [cache |-> c, raised |-> "KeyError"]
         ELSE PopNewestWhileOver(SubSeq(c, 1, Len(c) - 1), s)
    ELSE [cache |-> c, raised |-> "none"]
FifoCache_set_popnewest(c, s, k, v) == PopNewestWhileOver(OD_setitem(c, k, v), s)

\* faulty variant: a set of a stored key takes the key out and appends it anew
FifoCache_set_refresh(c, s, k, v) ==
    PopWhileOver(Append(OD_pop(c, k), [key |-> k, value |-> v]), s)

\* _FifoCache.set_
FifoCache_set(c, s, k, v) == PopWhileOver(OD_setitem(c, k, v), s)

\* _FifoCache.clear
FifoCache_clear(c) == <<>>

\* History of the FIFO cache: insertOrder lists the stored keys by the call
\* that inserted them (a set of a key that is already stored inserts nothing),
\* hitSince holds the stored keys that get has found since they were inserted.
InsertOrderAfter(c2, k) ==
    LET seq == IF InSeq(insertOrder, k) THEN insertOrder ELSE Append(insertOrder, k)
    IN  SelectSeq(seq, LAMBDA j : OD_has(c2, j))
FifoDropped(c2, k, v) ==
    LET seq == IF InSeq(insertOrder, k) THEN insertOrder ELSE Append(insertOrder, k)
        gone == SelectSeq(OD_setitem(fifo_cache, k, v), LAMBDA e : ~OD_has(c2, e.key))
    IN  [i \in 1..Len(gone) |->
            [key |-> gone[i].key,
             insertRank |-> Index(seq, gone[i].key),
             hit |-> gone[i].key \in hitSince]]

FifoInit ==
    \E s \in Capacities :
        LET o == FifoCache_init(s)
        IN  /\ o.raised = "none"
            /\ fifo_size = o.size
            /\ fifo_cache = o.cache
            /\ insertOrder = <<>>
            /\ last = [op |-> "init", args |-> <<s>>, tier |-> "none", ret |-> <<>>,
                       raised |-> o.raised]
            /\ hitSince = {}
            /\ evicted = <<>>
            /\ LRUIdle
            /\ UnboundedIdle
            /\ ExtIdle

FifoGet(k) ==
    LET r == FifoCache_get(fifo_cache, k)
    IN  /\ fifo_cache' = r.cache
        /\ last' = [op |-> "get", args |-> <<k>>, tier |-> Present(OD_keys(fifo_cache), k),
                    ret |-> <<r.ret>>, raised |-> "none"]
        /\ hitSince' = IF OD_has(fifo_cache, k) THEN hitSince \cup {k} ELSE hitSince
        /\ evicted' = <<>>
        /\ UNCHANGED <<fifo_size, insertOrder, lruVars, unbVars, extVars>>

FifoSet(k, v) ==
    LET r == FifoCache_set(fifo_cache, fifo_size, k, v)
    IN  /\ fifo_cache' = r.cache
        /\ last' = [op |-> "set", args |-> <<k, v>>, tier |-> Present(OD_keys(fifo_cache), k),
                    ret |-> <<>>, raised |-> r.raised]
        /\ insertOrder' = InsertOrderAfter(r.cache, k)
        /\ hitSince' = {j \in hitSince : OD_has(r.cache, j)}
        /\ evicted' = FifoDropped(r.cache, k, v)
        /\ UNCHANGED <<fifo_size, lruVars, unbVars, extVars>>

FifoClear ==
    /\ fifo_cache' = FifoCache_clear(fifo_cache)
    /\ last' = [op |-> "clear", args |-> <<>>, tier |-> "none", ret |-> <<>>,
                raised |-> "none"]
    /\ insertOrder' = <<>>
    /\ hitSince' = {}
    /\ evicted' = <<>>
    /\ UNCHANGED <<fifo_size, lruVars, unbVars, extVars>>

FifoNext ==
    \/ \E k \in Keys : FifoGet(k)
    \/ \E k \in Keys, v \in Vals : FifoSet(k, v)
    \/ FifoClear

SpecFifo == FifoInit /\ [][FifoNext]_vars

\* C9: with size >= 1 the FIFO cache never holds more than size entries, and
\* right after set(k, v) a get of k returns v.
C9_FifoBoundedKeepsNewKey ==
    fifo_size >= 1
    => /\ Len(fifo_cache) <= fifo_size
       /\ last.op = "set"
             => /\ last.raised = "none"
                /\ FifoCache_get(fifo_cache, last.args[1]).ret = last.args[2]

\* a set into a full cache has evicted an entry and stored its own
C9_Witness ==
    /\ fifo_size >= 1
    /\ last.op = "set" /\ last.tier = "absent"
    /\ Len(evicted) = 1
    /\ Len(fifo_cache) = fifo_size
    /\ FifoCache_get(fifo_cache, last.args[1]).ret = last.args[2]

\* C10: eviction follows insertion order whatever the gets in between: a get,
\* hit or miss, leaves the cache and its order as they are; the entries a set
\* discards are the earliest inserted ones; and a set of a new key into a full
\* cache of size >= 1 discards exactly the earliest inserted entry.
C10_FifoEvictsInInsertionOrder ==
    [][/\ \A k \in Keys : IsCall(last', "get", k) => fifo_cache' = fifo_cache
       /\ \A i \in 1..Len(evicted') : evicted'[i].insertRank = i
       /\ \A k \in Keys :
             (/\ IsCall(last', "set", k)
              /\ ~OD_has(fifo_cache, k)
              /\ fifo_size >= 1
              /\ Len(fifo_cache) = fifo_size)
             => /\ Len(evicted') = 1
                /\ evicted'[1].key = insertOrder[1]
                /\ OD_keys(fifo_cache') = (OD_keys(fifo_cache) \ {insertOrder[1]}) \cup {k}]_vars

\* the entry evicted had been read by get, an entry inserted later and never
\* read stays
C10_Witness ==
    /\ last.op = "set" /\ last.tier = "absent"
    /\ Len(evicted) = 1
    /\ evicted[1].hit
    /\ \E j \in OD_keys(fifo_cache) : j # last.args[1] /\ j \notin hitSince

\* ------------------------------------------------------------ UnboundedMemo
\* faulty variant: the __delitem__ of dict, which removes the key and raises
\* KeyError when it is not there
UnboundedMemo_delitem_dict(d, k) ==
    IF k \in DOMAIN d
    THEN [memo |-> Dict_del(d, k), raised |-> "none"]
    ELSE [memo |-> d, raised |-> "KeyError"]

\* UnboundedMemo.__delitem__: pass
UnboundedMemo_delitem(d, k) == [memo |-> d, raised |-> "none"]

\* dict.__setitem__, which UnboundedMemo inherits
UnboundedMemo_setitem(d, k, v) == Dict_set(d, k, v)

\* dict.__getitem__, which UnboundedMemo inherits: KeyError on a missing key
UnboundedMemo_getitem(d, k) ==
    IF k \in DOMAIN d
    THEN [ret |-> <<d[k]>>, raised |-> "none"]
    ELSE [ret |-> <<>>, raised |-> "KeyError"]

MemoInit ==
    /\ memo = EmptyDict
    /\ written = EmptyDict
    /\ unb_cache = EmptyDict
    /\ last = [op |-> "init", args |-> <<>>, tier |-> "none", ret |-> <<>>,
               raised |-> "none"]
    /\ hitSince = {}
    /\ evicted = <<>>
    /\ LRUIdle
    /\ FifoIdle
    /\ CollapseIdle
    /\ FlagsIdle

MemoGet(k) ==
    LET r == UnboundedMemo_getitem(memo, k)
    IN  /\ last' = [op |-> "getitem", args |-> <<k>>, tier |-> Present(DOMAIN memo, k),
                    ret |-> r.ret, raised |-> r.raised]
        /\ UNCHANGED <<memo, hitSince, evicted, lruVars, fifoVars, unbVars, collapseVars, flagVars>>

MemoSet(k, v) ==
    /\ memo' = UnboundedMemo_setitem(memo, k, v)
    /\ written' = Dict_set(written, k, v)
    /\ last' = [op |-> "setitem", args |-> <<k, v>>, tier |-> Present(DOMAIN memo, k),
                ret |-> <<>>, raised |-> "none"]
    /\ UNCHANGED <<unb_cache, hitSince, evicted, lruVars, fifoVars, collapseVars, flagVars>>

MemoDel(k) ==
    LET r == UnboundedMemo_delitem(memo, k)
    IN  /\ memo' = r.memo
        /\ last' = [op |-> "delitem", args |-> <<k>>, tier |-> Present(DOMAIN memo, k),
                    ret |-> <<>>, raised |-> r.raised]
        /\ UNCHANGED <<hitSince, evicted, lruVars, fifoVars, unbVars, collapseVars, flagVars>>

MemoNext ==
    \/ \E k \in Keys : MemoGet(k)
    \/ \E k \in Keys, v \in Vals : MemoSet(k, v)
    \/ \E k \in Keys : MemoDel(k)

SpecMemo == MemoInit /\ [][MemoNext]_vars

\* C11: in UnboundedMemo a delete changes nothing and raises nothing, also for
\* a key that was never set; every key that was set stays stored with the value
\* of its latest set, and a lookup returns that value.
C11_MemoRetainsDeletedItems ==
    [][/\ \A k \in Keys :
             IsCall(last', "delitem", k)
             => /\ memo' = memo
                /\ last'.raised = "none"
                /\ UnboundedMemo_getitem(memo', k) = UnboundedMemo_getitem(memo, k)
       /\ DOMAIN memo' = DOMAIN written'
       /\ \A k \in DOMAIN written' :
             UnboundedMemo_getitem(memo', k).ret = <<written'[k]>>
       /\ \A k \in DOMAIN written :
             IsCall(last', "getitem", k) => last'.ret = <<written[k]>>]_vars

\* a key that is stored has just been deleted and is still stored
C11_Witness ==
    /\ last.op = "delitem" /\ last.tier = "present"
    /\ last.args[1] \in DOMAIN memo
    /\ UnboundedMemo_getitem(memo, last.args[1]).ret = <<written[last.args[1]]>>

\* ------------------------------------------------ _collapse_string_to_ranges
\* A character is its code point, a string a sequence of code points.
Tab == 9
Newline == 10
Plus == 43
Comma == 44
Dash == 45
Dot == 46
LBracket == 91
\* _bslash = chr(92)
Bslash == 92
RBracket == 93
Caret == 94
LetterN == 110
LetterT == 116

\* r"\^-][", the characters escape_re_range_char puts a backslash before
RangeSpecials == {Bslash, Caret, Dash, RBracket, LBracket}

SetOf(str) == {str[i] : i \in 1..Len(str)}
RECURSIVE Ascending(_)
Ascending(S) ==
    IF S = {} THEN <<>>
    ELSE LET lo == CHOOSE x \in S : \A y \in S : x <= y
         IN  <<lo>> \o Ascending(S \ {lo})
RECURSIVE Descending(_)
Descending(S) ==
    IF S = {} THEN <<>>
    ELSE LET hi == CHOOSE x \in S : \A y \in S : x >= y
         IN  <<hi>> \o Descending(S \ {hi})
RECURSIVE Concat(_)
Concat(strs) == IF strs = <<>> THEN <<>> ELSE Head(strs) \o Concat(Tail(strs))

\* faulty variant: the distinct characters in the order they first occur, unsorted
RECURSIVE FirstOccurrences(_)
FirstOccurrences(str) ==
    IF str = <<>> THEN <<>>
    ELSE LET front == SubSeq(str, 1, Len(str) - 1)
             c == str[Len(str)]
         IN  IF c \in SetOf(front) THEN FirstOccurrences(front)
             ELSE Append(FirstOccurrences(front), c)

\* "".join(sorted(set(s)))
SortedSet(str) == Ascending(SetOf(str))

\* faulty variant: a gap of one code point is taken for a break as well
is_consecutive_ge(c, st) ==
    IF c - st.prev >= 1
    THEN [prev |-> c, counter |-> st.counter + 1, value |-> st.counter]
    ELSE [prev |-> c, counter |-> st.counter, value |-> st.value]

\* is_consecutive(c): one call, on the function's attributes prev, counter
\* (the next number itertools.count() yields) and value; the key is .value
is_consecutive(c, st) ==
    IF c - st.prev > 1
    THEN [prev |-> c, counter |-> st.counter + 1, value |-> st.counter]
    ELSE [prev |-> c, counter |-> st.counter, value |-> st.value]

\* is_consecutive.prev = 0, .counter = itertools.count(), .value = -1
IsConsecutiveInit == [prev |-> 0, counter |-> 0, value |-> -1]

\* itertools.groupby(s, key=is_consecutive): the key is computed once for each
\* character in turn, characters next to each other with one key form a group
RECURSIVE GroupBy(_, _, _)
GroupBy(str, st, groups) ==
    IF str = <<>> THEN groups
    ELSE LET st2 == is_consecutive(Head(str), st)
             n == Len(groups)
         IN  IF n > 0 /\ groups[n].key = st2.value
             THEN GroupBy(Tail(str), st2,
                          [groups EXCEPT ![n].chars = Append(@, Head(str))])
             ELSE GroupBy(Tail(str), st2,
                          Append(groups, [key |-> st2.value, chars |-> <<Head(str)>>]))

\* faulty variant: the dash is not among the escaped characters
escape_re_range_char_nodash(c) ==
    IF c \in {Bslash, Caret, RBracket, LBracket} THEN <<Bslash, c>> ELSE <<c>>

\* faulty variant: newline and tab are rendered as backslash-n and backslash-t
escape_re_range_char_control(c) ==
    IF c \in RangeSpecials THEN <<Bslash, c>>
    ELSE IF c = Newline THEN <<Bslash, LetterN>>
    ELSE IF c = Tab THEN <<Bslash, LetterT>>
    ELSE <<c>>

\* escape_re_range_char
escape_re_range_char(c) == IF c \in RangeSpecials THEN <<Bslash, c>> ELSE <<c>>

\* no_escape_re_range_char
no_escape_re_range_char(c) == <<c>>

\* the function the name escape_re_range_char is bound to after `if not re_escape`
EscapeChar(c, esc) == IF esc THEN escape_re_range_char(c) ELSE no_escape_re_range_char(c)

\* the body of the for loop: what one group appends to ret
GroupText(chars, esc) ==
    LET first == chars[1]
        lst == chars[Len(chars)]
    IN  IF first = lst THEN EscapeChar(first, esc)
        ELSE LET sep == IF lst = first + 1 THEN <<>> ELSE <<Dash>>
             IN  EscapeChar(first, esc) \o sep \o EscapeChar(lst, esc)

\* _collapse_string_to_ranges(s, re_escape)
collapse_string_to_ranges(str, esc) ==
    LET srt == SortedSet(str)
    IN  IF Len(srt) > 3
        THEN LET groups == GroupBy(srt, IsConsecutiveInit, <<>>)
             IN  Concat([i \in 1..Len(groups) |-> GroupText(groups[i].chars, esc)])
        ELSE Concat([i \in 1..Len(srt) |-> EscapeChar(srt[i], esc)])

\* str.replace(old, new) for a one-character old
RECURSIVE Replace(_, _, _)
Replace(str, old, new) ==
    IF str = <<>> THEN <<>>
    ELSE (IF Head(str) = old THEN new ELSE <<Head(str)>>) \o Replace(Tail(str), old, new)

\* _escape_regex_range_chars: the loop over r"\^-[]", then newline, then tab
escape_regex_range_chars(str) ==
    LET s1 == Replace(str, Bslash, <<Bslash, Bslash>>)
        s2 == Replace(s1, Caret, <<Bslash, Caret>>)
        s3 == Replace(s2, Dash, <<Bslash, Dash>>)
        s4 == Replace(s3, LBracket, <<Bslash, LBracket>>)
        s5 == Replace(s4, RBracket, <<Bslash, RBracket>>)
        s6 == Replace(s5, Newline, <<Bslash, LetterN>>)
    IN  Replace(s6, Tab, <<Bslash, LetterT>>)

\* What the text between the brackets of a regular-expression character class
\* matches: a backslash makes the next character literal (backslash-n is the
\* newline, backslash-t the tab), an unescaped dash between two characters is
\* the range of code points from the one to the other, a leading unescaped
\* caret negates the class and an unescaped closing bracket after the first
\* position ends it.  ok is FALSE when the text is not one well-formed class.
Unescaped(c) == IF c = LetterN THEN Newline ELSE IF c = LetterT THEN Tab ELSE c
ClassAtom(body, i) ==
    IF body[i] = Bslash
    THEN IF i < Len(body)
         THEN [ok |-> TRUE, char |-> Unescaped(body[i + 1]), next |-> i + 2]
         ELSE [ok |-> FALSE, char |-> Bslash, next |-> i + 1]
    ELSE [ok |-> ~(body[i] = RBracket /\ i > 1), char |-> body[i], next |-> i + 1]
RECURSIVE ClassItems(_, _, _)
ClassItems(body, i, acc) ==
    IF i > Len(body) THEN [ok |-> TRUE, chars |-> acc]
    ELSE LET lo == ClassAtom(body, i)
         IN  IF ~lo.ok THEN [ok |-> FALSE, chars |-> acc]
             ELSE IF lo.next < Len(body) /\ body[lo.next] = Dash
             THEN LET hi == ClassAtom(body, lo.next + 1)
                  IN  IF ~hi.ok \/ hi.char < lo.char THEN [ok |-> FALSE, chars |-> acc]
                      ELSE ClassItems(body, hi.next, acc \cup (lo.char..hi.char))
             ELSE ClassItems(body, lo.next, acc \cup {lo.char})
CharClass(body) ==
    IF body # <<>> /\ body[1] = Caret
    THEN [ok |-> FALSE, chars |-> {}]
    ELSE ClassItems(body, 1, {})

\* the characters the calls are made with
Alphabet ==
    {Tab, Newline, Plus, Comma, Dash, Dot, LBracket, Bslash, RBracket, Caret, LetterN}

CachesIdle ==
    /\ LRUIdle /\ FifoIdle /\ UnboundedIdle /\ MemoIdle
    /\ last = [op |-> "init", args |-> <<>>, tier |-> "none", ret |-> <<>>,
               raised |-> "none"]
    /\ hitSince = {}
    /\ evicted = <<>>
cacheVars == <<lruVars, fifoVars, unbVars, memoVars, last, hitSince, evicted>>

\* a call _collapse_string_to_ranges(str, esc)
Collapse(str, esc) ==
    /\ s_arg' = str
    /\ re_escape' = esc
    /\ ret' = collapse_string_to_ranges(str, esc)
    /\ UNCHANGED <<cacheVars, flagVars>>

CollapseInit ==
    /\ s_arg = <<>>
    /\ re_escape \in BOOLEAN
    /\ ret = collapse_string_to_ranges(<<>>, re_escape)
    /\ CachesIdle
    /\ FlagsIdle

\* Calls on every set of characters of Alphabet, each set passed as a string
\* in descending order: the next call has one character more, one character
\* less, or the other value of re_escape.
CollapseWith(c) ==
    /\ c \notin SetOf(s_arg)
    /\ Collapse(Descending(SetOf(s_arg) \cup {c}), re_escape)
CollapseWithout(c) ==
    /\ c \in SetOf(s_arg)
    /\ Collapse(Descending(SetOf(s_arg) \ {c}), re_escape)
CollapseOtherEscape == Collapse(s_arg, ~re_escape)

CollapseNext ==
    \/ \E c \in Alphabet : CollapseWith(c)
    \/ \E c \in Alphabet : CollapseWithout(c)
    \/ CollapseOtherEscape

SpecCollapse == CollapseInit /\ [][CollapseNext]_vars

\* C12: with escaping on, the returned text read as the body of a character
\* class is one well-formed class that matches exactly the set of the input
\* characters.
C12_RoundTrip ==
    re_escape => CharClass(ret) = [ok |-> TRUE, chars |-> SetOf(s_arg)]

\* every escaped character is in the input, with more than three characters
\* and a run of three, and the returned text matches the input set
C12_Witness ==
    /\ re_escape
    /\ RangeSpecials \subseteq SetOf(s_arg)
    /\ {Plus, Comma, Dash, Dot} \subseteq SetOf(s_arg)
    /\ Comma \notin SetOf(ret)
    /\ CharClass(ret).chars = SetOf(s_arg)

\* Calls on strings of up to MaxStringLen characters of OrderAlphabet, in any
\* order and with repeats: the next call has a character appended, two
\* neighbours exchanged, or one character left out.
MaxStringLen == 5
OrderAlphabet == {Plus, Comma, Dash, Dot, Bslash}

CollapseAppend(c) ==
    /\ Len(s_arg) < MaxStringLen
    /\ Collapse(Append(s_arg, c), re_escape)
CollapseSwap(i) ==
    /\ s_arg[i] # s_arg[i + 1]
    /\ Collapse([s_arg EXCEPT ![i] = s_arg[i + 1], ![i + 1] = s_arg[i]], re_escape)
CollapseDrop(i) ==
    Collapse(SubSeq(s_arg, 1, i - 1) \o SubSeq(s_arg, i + 1, Len(s_arg)), re_escape)

CollapseOrderNext ==
    \/ \E c \in OrderAlphabet : CollapseAppend(c)
    \/ \E i \in 1..(Len(s_arg) - 1) : CollapseSwap(i)
    \/ \E i \in 1..Len(s_arg) : CollapseDrop(i)

SpecCollapseOrder == CollapseInit /\ [][CollapseOrderNext]_vars

\* C13: two calls with the same re_escape on strings with the same set of
\* characters return the same text, whatever the order and the repeats, and a
\* call on the empty string returns the empty string.
C13_DependsOnSetOnly ==
    [][/\ (SetOf(s_arg') = SetOf(s_arg) /\ re_escape' = re_escape) => ret' = ret
       /\ s_arg' = <<>> => ret' = <<>>]_vars

\* a string with a repeat, not in ascending order, of more than three distinct
\* characters, returns what the ascending string without repeats returns
C13_Witness ==
    /\ Len(s_arg) > Cardinality(SetOf(s_arg))
    /\ Cardinality(SetOf(s_arg)) > 3
    /\ s_arg[1] > s_arg[2]
    /\ ret = collapse_string_to_ranges(Ascending(SetOf(s_arg)), re_escape)

HasPair(str, a, b) == \E i \in 1..(Len(str) - 1) : str[i] = a /\ str[i + 1] = b
ControlChars == {Newline, Tab}
ControlLetter(c) == IF c = Newline THEN LetterN ELSE LetterT

\* C14 as stated: with escaping on, a newline or tab of the input never shows
\* in the returned text as the raw character, but as backslash-n, backslash-t.
C14_ControlCharsAsEscapeSequences ==
    re_escape =>
        \A c \in ControlChars \cap SetOf(s_arg) :
            /\ c \notin SetOf(ret)
            /\ HasPair(ret, Bslash, ControlLetter(c))

\* C14 as amended: with escaping on, a newline or tab of the input that the
\* returned text names (standing alone or at the boundary of a run) is there
\* as the raw character, with no backslash before it; it is
\* _escape_regex_range_chars, which _collapse_string_to_ranges does not call,
\* that renders the two as backslash-n and backslash-t.
C14_ControlCharsRaw ==
    re_escape =>
        \A c \in ControlChars \cap SetOf(s_arg) :
            LET S == SetOf(s_arg)
                named == Cardinality(S) <= 3 \/ c - 1 \notin S \/ c + 1 \notin S
                helped == escape_regex_range_chars(SortedSet(s_arg))
            IN  /\ named =>
                    \E i \in 1..Len(ret) :
                        ret[i] = c /\ (i > 1 => ret[i - 1] # Bslash)
                /\ c \notin SetOf(helped)
                /\ HasPair(helped, Bslash, ControlLetter(c))

\* newline and tab are in an input of more than three characters and open the
\* returned text as the raw characters
C14_Witness ==
    /\ re_escape
    /\ ControlChars \subseteq SetOf(s_arg)
    /\ Cardinality(SetOf(s_arg)) > 3
    /\ SubSeq(ret, 1, 2) = <<Tab, Newline>>

\* The reference: the runs of a set are its maximal intervals of code points.
RunStarts(S) == {c \in S : c - 1 \notin S}
RunEnd(S, a) == CHOOSE b \in S : b >= a /\ b + 1 \notin S /\ (a..b) \subseteq S
RunText(a, b, esc) ==
    IF a = b THEN EscapeChar(a, esc)
    ELSE IF b = a + 1 THEN EscapeChar(a, esc) \o EscapeChar(b, esc)
    ELSE EscapeChar(a, esc) \o <<Dash>> \o EscapeChar(b, esc)
Reference(S, esc) ==
    IF Cardinality(S) <= 3
    THEN LET srt == Ascending(S)
         IN  Concat([i \in 1..Len(srt) |-> EscapeChar(srt[i], esc)])
    ELSE LET starts == Ascending(RunStarts(S))
         IN  Concat([i \in 1..Len(starts) |->
                        RunText(starts[i], RunEnd(S, starts[i]), esc)])

\* C16: the returned text is the reference's: up to three distinct characters
\* are written one by one in code-point order; more than three are written run
\* by run in ascending order, a run as its character, its two characters, or
\* its first, a dash and its last, with the escaping asked for.
C16_EqualsReference == ret = Reference(SetOf(s_arg), re_escape)

\* more than three characters, with a run of one, of two and of four
C16_Witness ==
    /\ SetOf(s_arg) = {Tab, Newline, Plus, Comma, Dash, Dot, LetterN}
    /\ re_escape
    /\ ret = <<Tab, Newline, Plus, Dash, Dot, LetterN>>

\* ------------------------------------------------------------ __config_flags
\* A flag class is a subclass that declares _all_names, _fixed_names and one
\* class attribute for every name it declares.
NumFlags == 3
FlagNames == 1..NumFlags

\* faulty variant: the name is looked up in _all_names before _fixed_names
config_flags_set_allfirst(names, fixed, at, dname, value) ==
    IF dname \in names
    THEN [attrs |-> Dict_set(at, dname, value), warned |-> FALSE, raised |-> "none"]
    ELSE IF dname \in fixed
    THEN [attrs |-> at, warned |-> dname \in DOMAIN at,
          raised |-> IF dname \in DOMAIN at THEN "none" ELSE "AttributeError"]
    ELSE [attrs |-> at, warned |-> FALSE, raised |-> "ValueError"]

\* __config_flags._set(dname, value); the warning text reads getattr(cls, dname)
config_flags_set(names, fixed, at, dname, value) ==
    IF dname \in fixed
    THEN [attrs |-> at, warned |-> dname \in DOMAIN at,
          raised |-> IF dname \in DOMAIN at THEN "none" ELSE "AttributeError"]
    ELSE IF dname \in names
    THEN [attrs |-> Dict_set(at, dname, value), warned |-> FALSE, raised |-> "none"]
    ELSE [attrs |-> at, warned |-> FALSE, raised |-> "ValueError"]

FlagsInit ==
    /\ all_names \in SUBSET FlagNames
    /\ fixed_names \in SUBSET FlagNames
    /\ attrs \in [all_names \cup fixed_names -> BOOLEAN]
    /\ flag_call = NoFlagCall
    /\ CachesIdle
    /\ CollapseIdle

FlagCall(op, dname, value) ==
    LET r == config_flags_set(all_names, fixed_names, attrs, dname, value)
    IN  /\ attrs' = r.attrs
        /\ flag_call' = [op |-> op, name |-> dname, warned |-> r.warned,
                         raised |-> r.raised]
        /\ UNCHANGED <<all_names, fixed_names, cacheVars, collapseVars>>

\* enable = classmethod(lambda cls, name: cls._set(name, True))
FlagEnable(dname) == FlagCall("enable", dname, TRUE)
\* disable = classmethod(lambda cls, name: cls._set(name, False))
FlagDisable(dname) == FlagCall("disable", dname, FALSE)

FlagsNext ==
    \/ \E dname \in FlagNames : FlagEnable(dname)
    \/ \E dname \in FlagNames : FlagDisable(dname)

SpecFlags == FlagsInit /\ [][FlagsNext]_vars

\* C15: an enable or disable call on a fixed name changes no flag, warns and
\* raises nothing; on a name that is neither fixed nor declared it changes no
\* flag and raises ValueError; on a declared name that is not fixed it sets
\* that flag to the value asked for and leaves every other flag as it was.
C15_FlagCallEffects ==
    [][\A dname \in FlagNames :
          (flag_call'.op \in {"enable", "disable"} /\ flag_call'.name = dname)
          => /\ dname \in fixed_names
                => /\ attrs' = attrs
                   /\ flag_call'.warned /\ flag_call'.raised = "none"
             /\ (dname \notin fixed_names /\ dname \notin all_names)
                => /\ attrs' = attrs
                   /\ ~flag_call'.warned /\ flag_call'.raised = "ValueError"
             /\ (dname \notin fixed_names /\ dname \in all_names)
                => /\ attrs' = [attrs EXCEPT ![dname] = (flag_call'.op = "enable")]
                   /\ ~flag_call'.warned /\ flag_call'.raised = "none"
             /\ all_names' = all_names /\ fixed_names' = fixed_names]_vars

\* a fixed flag that is off has just been enabled: the call warned and the
\* flag is still off, next to a flag that is not fixed and an undeclared name
C15_Witness ==
    /\ flag_call.op = "enable" /\ flag_call.warned
    /\ flag_call.name \in fixed_names \cap all_names
    /\ attrs[flag_call.name] = FALSE
    /\ all_names \ fixed_names # {}
    /\ FlagNames \ (all_names \cup fixed_names) # {}

\* ------------------------------------------------- LRUMemo claims, continued
\* C17: a delete of a key that is not in the active tier, retired or in
\* neither tier, raises nothing and leaves the active tier and the retired
\* tier, its order included, as they were; nothing is evicted.
C17_DeleteOfNonActiveKeyIsNoOp ==
    [][\A k \in Keys :
          (IsCall(last', "delitem", k) /\ k \notin DOMAIN active)
          => /\ last'.raised = "none"
             /\ active' = active
             /\ memory' = memory
             /\ evicted' = <<>>]_vars

\* a retired key has just been deleted while the retired tier is full and the
\* active tier is not empty
C17_Witness ==
    /\ last.op = "delitem" /\ last.tier = "retired"
    /\ OD_has(memory, last.args[1])
    /\ capacity >= 1 /\ Len(memory) = capacity
    /\ active # EmptyDict

\* C18: a get leaves the active tier as it was and every key of the retired
\* tier with its value; a hit in the active tier and a miss leave the retired
\* tier's order as well, a hit in the retired tier moves the hit entry to the
\* most recently used end and keeps the order of the others.
C18_GetChangesOnlyRecency ==
    [][\A k \in Keys :
          IsCall(last', "getitem", k)
          => /\ active' = active
             /\ \A j \in Keys : Stored(active', memory', j) = Stored(active, memory, j)
             /\ OD_keys(memory') = OD_keys(memory)
             /\ Len(memory') = Len(memory)
             /\ (k \in DOMAIN active \/ ~OD_has(memory, k)) => memory' = memory
             /\ (k \notin DOMAIN active /\ OD_has(memory, k))
                => memory' = SelectSeq(memory, LAMBDA e : e.key # k)
                              \o SelectSeq(memory, LAMBDA e : e.key = k)]_vars

\* a get has just hit the retired tier, which holds another entry too, and the
\* hit entry is at the most recently used end
C18_Witness ==
    /\ last.op = "getitem" /\ last.tier = "retired"
    /\ Len(memory) >= 2
    /\ memory[Len(memory)].key = last.args[1]
    /\ useOrder[Len(useOrder)] = last.args[1]
    /\ active # EmptyDict

\* C19: with a capacity of at least one, a key leaves the retired tier only in
\* a set of that key, which makes it active, in a clear, or in a delete of
\* another key that is active, made when the retired tier holds exactly
\* capacity entries; such a delete removes exactly one retired key.
C19_RetiredKeyLeavesOnlyBySetClearOrEviction ==
    [][capacity >= 1
       => LET gone == {j \in Keys : OD_has(memory, j) /\ ~OD_has(memory', j)}
              full_delete == /\ last'.op = "delitem"
                             /\ last'.args[1] \in DOMAIN active
                             /\ Len(memory) = capacity
          IN  /\ \A j \in gone :
                    \/ IsCall(last', "setitem", j) /\ j \in DOMAIN active'
                    \/ last'.op = "clear"
                    \/ full_delete /\ last'.args[1] # j
              /\ full_delete => (Cardinality(gone) = 1 /\ Len(evicted') = 1)]_vars

\* a delete of an active key has just evicted one entry of a full retired tier
\* of two, and the other retired entry is still there
C19_Witness ==
    /\ last.op = "delitem" /\ last.tier = "active"
    /\ capacity >= 2 /\ Len(memory) = capacity
    /\ Len(evicted) = 1
    /\ ~OD_has(memory, evicted[1].key)
    /\ memory[Len(memory)].key = last.args[1]

\* ---------------------------------------------------- _FifoCache, continued
KeyOrder(c) == [i \in 1..Len(c) |-> c[i].key]

\* C20: a set of a key the FIFO cache already stores raises nothing, evicts
\* nothing, stores the new value under the key and leaves every other entry and
\* the order of the keys as they were: the keys stay in the order of their
\* first insertion, so the oldest key, set again, is still the first in line
\* to be evicted.
C20_ResetKeepsPlace ==
    [][/\ \A k \in Keys :
             (IsCall(last', "set", k) /\ OD_has(fifo_cache, k))
             => /\ last'.raised = "none"
                /\ evicted' = <<>>
                /\ KeyOrder(fifo_cache') = KeyOrder(fifo_cache)
                /\ OD_get(fifo_cache', k) = last'.args[2]
                /\ \A j \in OD_keys(fifo_cache) \ {k} :
                      OD_get(fifo_cache', j) = OD_get(fifo_cache, j)
                /\ insertOrder' = insertOrder
       /\ KeyOrder(fifo_cache') = insertOrder']_vars

\* the oldest key of a full cache of two or more has just been set again and
\* is still the oldest, with the value of that set
C20_Witness ==
    /\ last.op = "set" /\ last.tier = "present"
    /\ fifo_size >= 2 /\ Len(fifo_cache) = fifo_size
    /\ fifo_cache[1] = [key |-> last.args[1], value |-> last.args[2]]
    /\ insertOrder[1] = last.args[1]
    /\ evicted = <<>>

====
